---- MODULE Spec2Model ----
(***************************************************************************)
(* Model of stima/scraper.py: the HTTP fetch (make_request), the PDF        *)
(* download (download_pdf), the recursive listing generator                *)
(* (scrape_interruptions) and the attachment generator                     *)
(* (scrape_interruption_attachments), with the exceptions of               *)
(* stima/exceptions.py.                                                    *)
(*                                                                         *)
(* Three specifications share the variables:                               *)
(*   Spec       one walk of scrape_interruptions, driven by a consumer     *)
(*   SpecAttach one run of scrape_interruption_attachments                 *)
(*   SpecFetch  make_request and download_pdf applied to one response      *)
(***************************************************************************)
EXTENDS Integers, Sequences, FiniteSets, TLC

VARIABLES
    \* ---- scrape_interruptions (the walk) ----
    site,       \* the listing pages the server has served so far: URL -> response
    wstack,     \* the generator frames of the recursion, outermost first: the url
                \* each was called with
    wpc,        \* position of the innermost frame
    widx,       \* index of the h2 tag the for loop of the innermost frame is at
    wexc,       \* the exception in flight, or delivered to the caller
    fetched,    \* the URLs requests.get was called with, in order
    printed,    \* what print() wrote, in order
    demand,     \* the consumer has called next() and is waiting for its result
    out,        \* the records the consumer has received, in order
    last,       \* how the last next() ended
    \* ---- scrape_interruption_attachments ----
    detail,     \* the response of the detail page
    a_tags,     \* the candidate anchors collected from the detail page
    apc,        \* position of the generator
    aidx,       \* index of the candidate the for loop is at
    aexc,       \* the exception delivered to the caller
    downloads,  \* the download links download_pdf was called with, in order
    tempfiles,  \* number of temporary files created
    ademand,    \* the consumer has called next() and is waiting
    aout,       \* the records the consumer has received
    alast,      \* how the last next() ended
    \* ---- make_request / download_pdf on their own ----
    req_url,    \* the URL passed in
    response,   \* what the server answers for it
    mr_result,  \* outcome of make_request(req_url)
    dp_result,  \* outcome of download_pdf(req_url)
    readback    \* what the caller reads from the returned file object

wvars == <<site, wstack, wpc, widx, wexc, fetched, demand, out, last>>
avars == <<detail, a_tags, apc, aidx, aexc, downloads, tempfiles, ademand, aout, alast>>
fvars == <<req_url, response, mr_result, dp_result, readback>>
vars == <<wvars, avars, fvars, printed>>

-----------------------------------------------------------------------------
(* Bounds of the model *)

MaxHeads == 2       \* h2.generictitle tags on one listing page
MaxFetch == 4       \* listing pages fetched in one walk
MaxUrlLen == 3      \* characters of a download URL
MaxChunks == 2      \* full chunks in a response body
MaxAnchors == 2     \* anchors in one region of a detail page

-----------------------------------------------------------------------------
(* Values *)

\* None as a str-or-None value (a url, an href)
None == "None"
\* a bs4 lookup that found no element (None), and one that found a Tag
NoTag == [isTag |-> FALSE]
Tag(href) == [isTag |-> TRUE, href |-> href]
NoValue == [type |-> "none"]

KPLC_INTERRUPTIONS_URL == "https://kplc.co.ke/category/view/50/planned-power-interruptions"

ListingUrls ==
    {KPLC_INTERRUPTIONS_URL,
     "https://kplc.co.ke/category/view/50/page/2",
     "https://kplc.co.ke/category/view/50/page/3"}

StatusCodes == {200, 204, 404}

Reason(code) ==
    CASE code = 200 -> "OK"
      [] code = 204 -> "No Content"
      [] code = 404 -> "Not Found"
      [] OTHER -> "Unknown"

-----------------------------------------------------------------------------
(* stima/exceptions.py *)

RequestError(url, code, reason) ==
    [type |-> "RequestError", url |-> url, code |-> code, reason |-> reason]

WrongContentType(message, url, content_type) ==
    [type |-> "WrongContentType", message |-> message, url |-> url,
     content_type |-> content_type]

\* "{reason} ({code}) on {url}" : the three fields in that order
RequestErrorStr(e) == <<e.reason, e.code, e.url>>

\* Exception.__str__ of the message WrongContentType passes to super().__init__
WrongContentTypeStr(e) == <<e.message>>

ErrorStr(e) ==
    IF e.type = "RequestError" THEN RequestErrorStr(e) ELSE WrongContentTypeStr(e)

\* exceptions of the runtime that the code never catches
AttributeError == [type |-> "AttributeError"]
UnicodeDecodeError == [type |-> "UnicodeDecodeError"]
IndexError == [type |-> "IndexError"]
KeyError == [type |-> "KeyError"]

-----------------------------------------------------------------------------
(* make_request *)

\* the outcome of make_request(url) when requests.get(url) returns resp:
\* an exception, or the decoded text
make_request(resp) ==
    IF resp.status_code # 200
    THEN RequestError(resp.url, resp.status_code, resp.reason)
    ELSE IF ~resp.decodable THEN UnicodeDecodeError
    ELSE [type |-> "ok", content |-> resp.content]

-----------------------------------------------------------------------------
(* download_pdf *)

\* a str is the sequence of its characters
UrlChars == {"/", "f"}
DownloadUrls == UNION {[1..n -> UrlChars] : n \in 0..MaxUrlLen}

\* where a redirected download ends up
RedirectedUrl == <<"/", "r", "/", "f">>

ChunkSize == 4096

\* the body of a response: n bytes, all told apart by their position
Body(n) == [i \in 1..n |-> i % 251]
BodyLengths == {n \in {k * ChunkSize + d : k \in 0..MaxChunks, d \in {-1, 0, 1}} : n >= 0}

SmallLengths == {0, 1}

PDF == "application/pdf"
HeaderSets ==
    {<<>>,
     [h \in {"Content-Type"} |-> PDF],
     [h \in {"Content-Type", "Content-Disposition"} |->
        IF h = "Content-Type" THEN PDF ELSE "attachment; filename=served.pdf"],
     [h \in {"Content-Type"} |-> "application/pdf;charset=utf-8"],
     [h \in {"Content-Type"} |-> "text/html"]}

\* what requests.get may return for a download URL; lengths bounds the bodies
DownloadResponses(url, lengths) ==
    {[url |-> eu, status_code |-> s, reason |-> Reason(s), headers |-> hd,
      decodable |-> dec, content |-> Body(n)] :
        eu \in {url, RedirectedUrl}, s \in StatusCodes, hd \in HeaderSets,
        dec \in BOOLEAN, n \in lengths}

\* index of the last "/" of url, 0 when it has none
LastSlash(url) ==
    LET at == {i \in 1..Len(url) : url[i] = "/"} IN
    IF at = {} THEN 0 ELSE CHOOSE i \in at : \A j \in at : j <= i

FirstSlash(url) ==
    LET at == {i \in 1..Len(url) : url[i] = "/"} IN
    IF at = {} THEN 0 ELSE CHOOSE i \in at : \A j \in at : i <= j

split_first(url) ==
    LET k == FirstSlash(url) IN
    IF k = 0 THEN <<url>>
    ELSE <<SubSeq(url, 1, k - 1), SubSeq(url, k + 1, Len(url))>>

\* url.rsplit('/', 1): the list of the parts around the last "/"
rsplit(url) ==
    LET k == LastSlash(url) IN
    IF k = 0 THEN <<url>>
    ELSE <<SubSeq(url, 1, k - 1), SubSeq(url, k + 1, Len(url))>>

Min(a, b) == IF a <= b THEN a ELSE b

\* response.iter_content(chunk_size): the body in pieces of chunk_size bytes,
\* the last one shorter when the length is no multiple of it
RECURSIVE iter_content(_, _)
iter_content(content, chunk_size) ==
    IF content = <<>> THEN <<>>
    ELSE LET n == Min(chunk_size, Len(content)) IN
         <<SubSeq(content, 1, n)>>
            \o iter_content(SubSeq(content, n + 1, Len(content)), chunk_size)

\* tempfile.NamedTemporaryFile(delete=True): an empty file open at offset 0
NamedTemporaryFile == [data |-> <<>>, pos |-> 0]

\* file.write(chunk): the bytes go in at the current offset, which advances
FileWrite(file, chunk) ==
    [data |-> SubSeq(file.data, 1, file.pos) \o chunk
                \o SubSeq(file.data, file.pos + Len(chunk) + 1, Len(file.data)),
     pos |-> file.pos + Len(chunk)]

\* file.seek(offset)
FileSeek(file, offset) == [file EXCEPT !.pos = offset]

\* file.read(): everything from the current offset on
FileRead(file) == SubSeq(file.data, file.pos + 1, Len(file.data))

\* lines 63-64: the for loop writing the chunks in order
RECURSIVE WriteChunks(_, _)
WriteChunks(file, chunks) ==
    IF chunks = <<>> THEN file
    ELSE WriteChunks(FileWrite(file, Head(chunks)), Tail(chunks))

\* what a call of download_pdf did: the exception it raised or the tuple it
\* returned, the GET requests it made and the temporary files it created
Raised(exc, nreq) ==
    [raised |-> exc, value |-> NoValue, requests |-> nreq, created |-> 0]
Returned(pdf_filename, pdf_file_temp) ==
    [raised |-> NoValue,
     value |-> [type |-> "tuple", pdf_filename |-> pdf_filename,
                pdf_file_temp |-> pdf_file_temp],
     requests |-> 1, created |-> 1]

download_pdf_no_seek(url, resp) ==
    IF Len(rsplit(url)) < 2 THEN Raised(IndexError, 0)
    ELSE IF resp.status_code # 200
    THEN Raised(RequestError(url, resp.status_code, resp.reason), 1)
    ELSE IF "Content-Type" \notin DOMAIN resp.headers THEN Raised(KeyError, 1)
    ELSE IF resp.headers["Content-Type"] # PDF
    THEN Raised(WrongContentType("File is not a PDF", resp.url,
                                 resp.headers["Content-Type"]), 1)
    ELSE Returned(rsplit(url)[2],
                  WriteChunks(NamedTemporaryFile, iter_content(resp.content, ChunkSize)))

download_pdf_type_first(url, resp) ==
    IF Len(rsplit(url)) < 2 THEN Raised(IndexError, 0)
    ELSE IF "Content-Type" \notin DOMAIN resp.headers THEN Raised(KeyError, 1)
    ELSE IF resp.headers["Content-Type"] # PDF
    THEN Raised(WrongContentType("File is not a PDF", resp.url,
                                 resp.headers["Content-Type"]), 1)
    ELSE IF resp.status_code # 200
    THEN Raised(RequestError(url, resp.status_code, resp.reason), 1)
    ELSE Returned(rsplit(url)[2],
                  FileSeek(WriteChunks(NamedTemporaryFile,
                                       iter_content(resp.content, ChunkSize)), 0))

download_pdf_prefix_match(url, resp) ==
    IF Len(rsplit(url)) < 2 THEN Raised(IndexError, 0)
    ELSE IF resp.status_code # 200
    THEN Raised(RequestError(url, resp.status_code, resp.reason), 1)
    ELSE IF "Content-Type" \notin DOMAIN resp.headers THEN Raised(KeyError, 1)
    ELSE IF resp.headers["Content-Type"] \notin {PDF, "application/pdf;charset=utf-8"}
    THEN Raised(WrongContentType("File is not a PDF", resp.url,
                                 resp.headers["Content-Type"]), 1)
    ELSE Returned(rsplit(url)[2],
                  FileSeek(WriteChunks(NamedTemporaryFile,
                                       iter_content(resp.content, ChunkSize)), 0))

download_pdf_temp_before_checks(url, resp) ==
    IF Len(rsplit(url)) < 2 THEN Raised(IndexError, 0)
    ELSE IF resp.status_code # 200
    THEN [Raised(RequestError(url, resp.status_code, resp.reason), 1)
            EXCEPT !.created = 1]
    ELSE IF "Content-Type" \notin DOMAIN resp.headers
    THEN [Raised(KeyError, 1) EXCEPT !.created = 1]
    ELSE IF resp.headers["Content-Type"] # PDF
    THEN [Raised(WrongContentType("File is not a PDF", resp.url,
                                  resp.headers["Content-Type"]), 1)
            EXCEPT !.created = 1]
    ELSE Returned(rsplit(url)[2],
                  FileSeek(WriteChunks(NamedTemporaryFile,
                                       iter_content(resp.content, ChunkSize)), 0))

\* download_pdf(url) when requests.get(url, stream=True) returns resp
download_pdf(url, resp) ==
    \* line 51: [1] of a list of one part
    IF Len(rsplit(url)) < 2 THEN Raised(IndexError, 0)
    \* lines 52-54
    ELSE IF resp.status_code # 200
    THEN Raised(RequestError(url, resp.status_code, resp.reason), 1)
    \* line 57: headers['Content-Type'] of a response without that header
    ELSE IF "Content-Type" \notin DOMAIN resp.headers THEN Raised(KeyError, 1)
    \* lines 58-59
    ELSE IF resp.headers["Content-Type"] # PDF
    THEN Raised(WrongContentType("File is not a PDF", resp.url,
                                 resp.headers["Content-Type"]), 1)
    \* lines 62-67
    ELSE Returned(rsplit(url)[2],
                  FileSeek(WriteChunks(NamedTemporaryFile,
                                       iter_content(resp.content, ChunkSize)), 0))

-----------------------------------------------------------------------------
(* Listing pages *)

\* a <h2 class="generictitle"> of the page at url: its string and, when it
\* holds an <a>, the href of the first one
H2Tag(url, i, hasA) ==
    [string |-> <<"title", url, i>>,
     a |-> IF hasA THEN Tag(<<"item", url, i>>) ELSE NoTag]

\* the href values a rel=next anchor may carry (None: the attribute is missing)
NextHrefs == ListingUrls \cup {None, ""}

\* what BeautifulSoup sees in a listing page: whether <main> exists, its
\* h2.generictitle tags in document order, whether <ul class="pagination">
\* exists and the a[rel=next] in it (None when there is none)
HeadShapes == UNION {[1..n -> BOOLEAN] : n \in 0..MaxHeads}

NextTags(pg) == IF pg THEN {NoTag} \cup {Tag(h) : h \in NextHrefs} ELSE {NoTag}

ListingDocs(url) ==
    {[main |-> FALSE, h2_tags |-> <<>>, pagination |-> FALSE, next |-> NoTag]}
    \cup
    UNION {{[main |-> TRUE,
             h2_tags |-> [i \in 1..Len(hs) |-> H2Tag(url, i, hs[i])],
             pagination |-> pg,
             next |-> nx] : hs \in HeadShapes, nx \in NextTags(pg)} : pg \in BOOLEAN}

EmptyDoc == [main |-> FALSE, h2_tags |-> <<>>, pagination |-> FALSE, next |-> NoTag]

\* the responses the server may give for a listing URL
ListingResponses(url) ==
    {[url |-> url, status_code |-> s, reason |-> Reason(s), decodable |-> TRUE,
      content |-> EmptyDoc] : s \in StatusCodes \ {200}}
    \cup
    {[url |-> url, status_code |-> 200, reason |-> Reason(200), decodable |-> FALSE,
      content |-> EmptyDoc]}
    \cup
    {[url |-> url, status_code |-> 200, reason |-> Reason(200), decodable |-> TRUE,
      content |-> d] : d \in ListingDocs(url)}

-----------------------------------------------------------------------------
(* scrape_interruptions *)

\* url = url or KPLC_INTERRUPTIONS_URL
UrlOrDefault(url) == IF url = None \/ url = "" THEN KPLC_INTERRUPTIONS_URL ELSE url

\* the url of the innermost frame once line 83 has run
Top == UrlOrDefault(wstack[Len(wstack)])
soup == site[Top].content

\* the dict yielded for an h2 tag
ListingRecord(h2_tag) == [title |-> h2_tag.string, link |-> h2_tag.a.href]

WInit ==
    /\ site = <<>>
    /\ \E url \in ListingUrls \cup {None} : wstack = <<url>>
    /\ wpc = "request"
    /\ widx = 0
    /\ wexc = NoValue
    /\ fetched = <<>>
    /\ printed = <<>>
    /\ demand = FALSE
    /\ out = <<>>
    /\ last = "none"

\* the consumer calls next() on the generator
WPull ==
    /\ ~demand
    /\ demand' = TRUE
    /\ UNCHANGED <<site, wstack, wpc, widx, wexc, fetched, printed, out, last>>

WRequest_prefetch ==
    /\ wpc = "request"
    /\ Len(fetched) < MaxFetch
    /\ \E resp \in ListingResponses(Top) :
        /\ Top \in DOMAIN site => resp = site[Top]
        /\ site' = IF Top \in DOMAIN site THEN site ELSE site @@ (Top :> resp)
        /\ fetched' = Append(fetched, Top)
        /\ LET r == make_request(resp) IN
           IF r.type = "ok"
           THEN /\ wpc' = "h2_tags"
                /\ widx' = 1
                /\ UNCHANGED <<wexc, printed>>
           ELSE /\ wpc' = "raise"
                /\ wexc' = r
                /\ printed' = IF r.type = "RequestError"
                              THEN Append(printed, ErrorStr(r)) ELSE printed
                /\ UNCHANGED widx
    /\ UNCHANGED <<wstack, demand, out, last>>

\* lines 83-88: the innermost frame fetches its page
WRequest ==
    /\ demand /\ wpc = "request"
    /\ Len(fetched) < MaxFetch
    /\ \E resp \in ListingResponses(Top) :
        /\ Top \in DOMAIN site => resp = site[Top]
        /\ site' = IF Top \in DOMAIN site THEN site ELSE site @@ (Top :> resp)
        /\ fetched' = Append(fetched, Top)
        /\ LET r == make_request(resp) IN
           IF r.type = "ok"
           THEN /\ wpc' = "h2_tags"
                /\ widx' = 1
                /\ UNCHANGED <<wexc, printed>>
           ELSE /\ wpc' = "raise"
                /\ wexc' = r
                /\ printed' = IF r.type = "RequestError"
                              THEN Append(printed, ErrorStr(r)) ELSE printed
                /\ UNCHANGED widx
    /\ UNCHANGED <<wstack, demand, out, last>>

WH2Tags_drop_last ==
    /\ demand /\ wpc = "h2_tags"
    /\ IF ~soup.main
       THEN /\ wpc' = "raise" /\ wexc' = AttributeError
            /\ UNCHANGED <<widx, demand, out, last>>
       ELSE IF widx >= Len(soup.h2_tags)
       THEN /\ wpc' = "next"
            /\ UNCHANGED <<widx, wexc, demand, out, last>>
       ELSE IF ~soup.h2_tags[widx].a.isTag
       THEN /\ wpc' = "raise" /\ wexc' = AttributeError
            /\ UNCHANGED <<widx, demand, out, last>>
       ELSE /\ out' = Append(out, ListingRecord(soup.h2_tags[widx]))
            /\ last' = "record"
            /\ demand' = FALSE
            /\ widx' = widx + 1
            /\ UNCHANGED <<wpc, wexc>>
    /\ UNCHANGED <<site, wstack, fetched, printed>>

\* lines 91-96: one turn of the for loop over the h2 tags of <main>
WH2Tags ==
    /\ demand /\ wpc = "h2_tags"
    /\ IF ~soup.main
       THEN \* soup.find("main") is None
            /\ wpc' = "raise" /\ wexc' = AttributeError
            /\ UNCHANGED <<widx, demand, out, last>>
       ELSE IF widx > Len(soup.h2_tags)
       THEN /\ wpc' = "next"
            /\ UNCHANGED <<widx, wexc, demand, out, last>>
       ELSE IF ~soup.h2_tags[widx].a.isTag
       THEN \* h2_tag.a is None
            /\ wpc' = "raise" /\ wexc' = AttributeError
            /\ UNCHANGED <<widx, demand, out, last>>
       ELSE /\ out' = Append(out, ListingRecord(soup.h2_tags[widx]))
            /\ last' = "record"
            /\ demand' = FALSE
            /\ widx' = widx + 1
            /\ UNCHANGED <<wpc, wexc>>
    /\ UNCHANGED <<site, wstack, fetched, printed>>

\* lines 98-103: look for the rel=next anchor and recurse
WNextPage ==
    /\ demand /\ wpc = "next"
    /\ IF ~soup.pagination
       THEN \* soup.find("ul", class_="pagination") is None
            /\ wpc' = "raise" /\ wexc' = AttributeError
            /\ UNCHANGED wstack
       ELSE IF ~soup.next.isTag
       THEN /\ wpc' = "return"
            /\ UNCHANGED <<wstack, wexc>>
       ELSE /\ wstack' = Append(wstack, soup.next.href)
            /\ wpc' = "request"
            /\ UNCHANGED wexc
    /\ UNCHANGED <<site, widx, fetched, printed, demand, out, last>>

\* the innermost frame ends; the frame that called it resumes after its
\* yield from, which is its last statement
WReturn ==
    /\ demand /\ wpc = "return"
    /\ wstack' = SubSeq(wstack, 1, Len(wstack) - 1)
    /\ IF Len(wstack) = 1
       THEN /\ wpc' = "closed" /\ last' = "StopIteration" /\ demand' = FALSE
       ELSE UNCHANGED <<wpc, last, demand>>
    /\ UNCHANGED <<site, widx, wexc, fetched, printed, out>>

WRaise_caught_by_caller ==
    /\ demand /\ wpc = "raise"
    /\ wstack' = SubSeq(wstack, 1, Len(wstack) - 1)
    /\ IF Len(wstack) = 1
       THEN /\ wpc' = "closed" /\ last' = wexc.type /\ demand' = FALSE
            /\ UNCHANGED wexc
       ELSE /\ wpc' = "return" /\ wexc' = NoValue
            /\ UNCHANGED <<last, demand>>
    /\ UNCHANGED <<site, widx, fetched, printed, out>>

\* the exception leaves the innermost frame; no frame catches it at its
\* yield from
WRaise ==
    /\ demand /\ wpc = "raise"
    /\ wstack' = SubSeq(wstack, 1, Len(wstack) - 1)
    /\ IF Len(wstack) = 1
       THEN /\ wpc' = "closed" /\ last' = wexc.type /\ demand' = FALSE
       ELSE UNCHANGED <<wpc, last, demand>>
    /\ UNCHANGED <<site, widx, wexc, fetched, printed, out>>

\* next() on a generator that has ended
WClosed ==
    /\ demand /\ wpc = "closed"
    /\ last' = "StopIteration"
    /\ demand' = FALSE
    /\ UNCHANGED <<site, wstack, wpc, widx, wexc, fetched, printed, out>>

AIdle ==
    /\ detail = NoValue /\ a_tags = <<>> /\ apc = "idle" /\ aidx = 0
    /\ aexc = NoValue /\ downloads = <<>> /\ tempfiles = 0
    /\ ademand = FALSE /\ aout = <<>> /\ alast = "none"

FIdle ==
    /\ req_url = <<>> /\ response = NoValue /\ mr_result = NoValue
    /\ dp_result = NoValue /\ readback = NoValue

Init == WInit /\ AIdle /\ FIdle

Next ==
    \/ WPull /\ UNCHANGED <<avars, fvars>>
    \/ WRequest /\ UNCHANGED <<avars, fvars>>
    \/ WH2Tags /\ UNCHANGED <<avars, fvars>>
    \/ WNextPage /\ UNCHANGED <<avars, fvars>>
    \/ WReturn /\ UNCHANGED <<avars, fvars>>
    \/ WRaise /\ UNCHANGED <<avars, fvars>>
    \/ WClosed /\ UNCHANGED <<avars, fvars>>

Spec == Init /\ [][Next]_vars

-----------------------------------------------------------------------------
(* make_request and download_pdf on one URL and one response *)

WIdle ==
    /\ site = <<>> /\ wstack = <<>> /\ wpc = "idle" /\ widx = 0
    /\ wexc = NoValue /\ fetched = <<>>
    /\ demand = FALSE /\ out = <<>> /\ last = "none"

\* every URL with every kind of answer and a short body, and the answers that
\* can be downloaded with bodies around the multiples of the chunk size
FInit ==
    /\ \/ /\ req_url \in DownloadUrls
          /\ response \in DownloadResponses(req_url, SmallLengths)
       \/ /\ req_url = RedirectedUrl
          /\ response \in {r \in DownloadResponses(req_url, BodyLengths) :
                              r.status_code = 200 /\ r.decodable}
    /\ mr_result = NoValue
    /\ dp_result = NoValue
    /\ readback = NoValue

\* make_request(req_url)
FMakeRequest ==
    /\ mr_result = NoValue
    /\ mr_result' = make_request(response)
    /\ UNCHANGED <<req_url, response, dp_result, readback>>

\* download_pdf(req_url)
FDownloadPdf ==
    /\ dp_result = NoValue
    /\ dp_result' = download_pdf(req_url, response)
    /\ UNCHANGED <<req_url, response, mr_result, readback>>

\* the caller reads the file object it was given
FRead ==
    /\ dp_result # NoValue /\ dp_result.raised = NoValue
    /\ readback = NoValue
    /\ readback' = [type |-> "bytes", data |-> FileRead(dp_result.value.pdf_file_temp)]
    /\ UNCHANGED <<req_url, response, mr_result, dp_result>>

NextFetch ==
    \/ FMakeRequest /\ UNCHANGED <<wvars, avars, printed>>
    \/ FDownloadPdf /\ UNCHANGED <<wvars, avars, printed>>
    \/ FRead /\ UNCHANGED <<wvars, avars, printed>>

InitFetch == WIdle /\ AIdle /\ FInit /\ printed = <<>>

SpecFetch == InitFetch /\ [][NextFetch]_vars

-----------------------------------------------------------------------------
(* Detail pages *)

DetailUrl == "https://kplc.co.ke/content/item/3071/interruptions---20.06.2019"

\* the href values of the anchors that may be downloaded
Hrefs == {<<"/", "f", "/", "f", "f">>, <<"f">>}

\* an <a> of a region: its class, its href and its text, which tells the
\* anchors of a page apart
ATag(region, i, kind) ==
    [class |-> kind.class, href |-> kind.href, text |-> <<region, i>>]

\* the anchors a region may hold: of the class looked for in it, with any
\* href, or of the class looked for in the other region
ATagKinds(class, other) ==
    {[class |-> class, href |-> h] : h \in Hrefs}
    \cup {[class |-> other, href |-> <<"/", "f">>]}

\* a <div> looked up by class: not found, or found with its anchors in
\* document order
NoDiv == [found |-> FALSE, a_tags |-> <<>>]
Divs(region, class, other) ==
    {NoDiv} \cup
    {[found |-> TRUE, a_tags |-> [i \in 1..Len(ks) |-> ATag(region, i, ks[i])]] :
        ks \in UNION {[1..n -> ATagKinds(class, other)] : n \in 0..MaxAnchors}}

DetailDocs ==
    {[attachments |-> at, genericintro |-> gi] :
        at \in Divs("attachments", "docicon", "download"),
        gi \in Divs("genericintro", "download", "docicon")}

EmptyDetailDoc == [attachments |-> NoDiv, genericintro |-> NoDiv]

DetailResponses ==
    {[url |-> DetailUrl, status_code |-> s, reason |-> Reason(s), decodable |-> TRUE,
      content |-> EmptyDetailDoc] : s \in StatusCodes \ {200}}
    \cup
    {[url |-> DetailUrl, status_code |-> 200, reason |-> Reason(200),
      decodable |-> FALSE, content |-> EmptyDetailDoc]}
    \cup
    {[url |-> DetailUrl, status_code |-> 200, reason |-> Reason(200),
      decodable |-> TRUE, content |-> d] : d \in DetailDocs}

\* the answers to the download of one attachment
AttachmentResponses(url) ==
    {r \in DownloadResponses(url, {1}) : r.decodable /\ r.status_code \in {200, 404}}

-----------------------------------------------------------------------------
(* scrape_interruption_attachments *)

\* div.find_all("a", class_=class)
find_all(div, class) == SelectSeq(div.a_tags, LAMBDA a : a.class = class)

\* lines 133-143: the a_tags list
Candidates(doc) ==
    (IF doc.attachments.found THEN find_all(doc.attachments, "docicon") ELSE <<>>)
    \o (IF doc.genericintro.found THEN find_all(doc.genericintro, "download") ELSE <<>>)

\* lines 155-161: the dict yielded for a downloaded attachment
AttachmentRecord(url, value, a_tag) ==
    [parent_link |-> url,
     pdf_filename |-> value.pdf_filename,
     pdf_file_temp |-> value.pdf_file_temp,
     download_link_text |-> a_tag.text,
     download_link |-> a_tag.href]

Caught_request_error_only(exc) == exc.type = "RequestError"

\* line 151: except (RequestError, WrongContentType)
Caught(exc) == exc.type \in {"RequestError", "WrongContentType"}

AInit ==
    /\ detail \in DetailResponses
    /\ a_tags = <<>>
    /\ apc = "request"
    /\ aidx = 0
    /\ aexc = NoValue
    /\ downloads = <<>>
    /\ tempfiles = 0
    /\ ademand = FALSE
    /\ aout = <<>>
    /\ alast = "none"

\* the consumer calls next() on the generator
APull ==
    /\ ~ademand
    /\ ademand' = TRUE
    /\ UNCHANGED <<detail, a_tags, apc, aidx, aexc, downloads, tempfiles, aout, alast,
                   printed>>

ARequestFails_skipped ==
    /\ ademand /\ apc = "request"
    /\ make_request(detail).type # "ok"
    /\ LET r == make_request(detail) IN
        printed' = IF r.type = "RequestError"
                   THEN Append(printed, ErrorStr(r)) ELSE printed
    /\ apc' = "closed"
    /\ alast' = "StopIteration"
    /\ ademand' = FALSE
    /\ UNCHANGED <<detail, a_tags, aidx, aexc, downloads, tempfiles, aout>>

\* lines 125-129, the fetch fails: the error is printed and raised again
ARequestFails ==
    /\ ademand /\ apc = "request"
    /\ make_request(detail).type # "ok"
    /\ LET r == make_request(detail) IN
        /\ aexc' = r
        /\ alast' = r.type
        /\ printed' = IF r.type = "RequestError"
                      THEN Append(printed, ErrorStr(r)) ELSE printed
    /\ apc' = "closed"
    /\ ademand' = FALSE
    /\ UNCHANGED <<detail, a_tags, aidx, downloads, tempfiles, aout>>

\* lines 125-143, the fetch succeeds: the page is parsed and the candidates
\* collected
ARequest ==
    /\ ademand /\ apc = "request"
    /\ make_request(detail).type = "ok"
    /\ a_tags' = Candidates(make_request(detail).content)
    /\ apc' = "loop"
    /\ aidx' = 1
    /\ UNCHANGED <<detail, aexc, downloads, tempfiles, ademand, aout, alast, printed>>

\* lines 145-161: one turn of the for loop over a_tags
ADownload ==
    /\ ademand /\ apc = "loop" /\ aidx <= Len(a_tags)
    /\ LET a_tag == a_tags[aidx]
           download_link == a_tag.href
       IN \E resp \in AttachmentResponses(download_link) :
           LET r == download_pdf(download_link, resp) IN
           /\ downloads' = Append(downloads, [link |-> download_link,
                                              requests |-> r.requests,
                                              outcome |-> IF r.raised = NoValue THEN "ok"
                                                          ELSE r.raised.type])
           /\ tempfiles' = tempfiles + r.created
           /\ IF r.raised = NoValue
              THEN \* yield
                   /\ aout' = Append(aout, AttachmentRecord(detail.url, r.value, a_tag))
                   /\ alast' = "record"
                   /\ ademand' = FALSE
                   /\ aidx' = aidx + 1
                   /\ UNCHANGED <<apc, aexc, printed>>
              ELSE IF Caught(r.raised)
              THEN \* print and continue
                   /\ printed' = Append(printed, ErrorStr(r.raised))
                   /\ aidx' = aidx + 1
                   /\ UNCHANGED <<apc, aexc, ademand, aout, alast>>
              ELSE \* the exception leaves the generator
                   /\ aexc' = r.raised
                   /\ alast' = r.raised.type
                   /\ apc' = "closed"
                   /\ ademand' = FALSE
                   /\ UNCHANGED <<aidx, aout, printed>>
    /\ UNCHANGED <<detail, a_tags>>

\* the for loop is over: the generator ends
ALoopEnd ==
    /\ ademand /\ apc = "loop" /\ aidx > Len(a_tags)
    /\ apc' = "closed"
    /\ alast' = "StopIteration"
    /\ ademand' = FALSE
    /\ UNCHANGED <<detail, a_tags, aidx, aexc, downloads, tempfiles, aout, printed>>

\* next() on a generator that has ended
AClosed ==
    /\ ademand /\ apc = "closed"
    /\ alast' = "StopIteration"
    /\ ademand' = FALSE
    /\ UNCHANGED <<detail, a_tags, apc, aidx, aexc, downloads, tempfiles, aout, printed>>

NextAttach ==
    \/ APull /\ UNCHANGED <<wvars, fvars>>
    \/ ARequestFails /\ UNCHANGED <<wvars, fvars>>
    \/ ARequest /\ UNCHANGED <<wvars, fvars>>
    \/ ADownload /\ UNCHANGED <<wvars, fvars>>
    \/ ALoopEnd /\ UNCHANGED <<wvars, fvars>>
    \/ AClosed /\ UNCHANGED <<wvars, fvars>>

InitAttach == WIdle /\ AInit /\ FIdle /\ printed = <<>>

SpecAttach == InitAttach /\ [][NextAttach]_vars

-----------------------------------------------------------------------------
(* Properties of the walk *)

IsPrefix(s, t) == Len(s) <= Len(t) /\ SubSeq(t, 1, Len(s)) = s

\* the page at url was fetched with status 200, decoded, and has a <main>
Served(url) ==
    /\ url \in DOMAIN site
    /\ site[url].status_code = 200
    /\ site[url].decodable
    /\ site[url].content.main

\* the records of the page at url: one per h2.generictitle, in document order
RecordsOf(url) ==
    IF ~Served(url) THEN <<>>
    ELSE LET hs == site[url].content.h2_tags IN
         [i \in 1..Len(hs) |->
            [title |-> hs[i].string,
             link |-> IF hs[i].a.isTag THEN hs[i].a.href ELSE None]]

\* the records of the first n pages fetched, page after page
RECURSIVE RecordsUpTo(_)
RecordsUpTo(n) ==
    IF n = 0 THEN <<>> ELSE RecordsUpTo(n - 1) \o RecordsOf(fetched[n])

NFetched == Len(fetched)
LastFetched == fetched[NFetched]

\* C1: the records reach the consumer in page order and, within a page, in
\* document order of the headings: what has been yielded is always a prefix
\* of the pages' records laid end to end in fetch order; when page k+1 is
\* fetched every record of pages 1..k has been yielded; and when a frame
\* is past its loop (or the walk has ended normally) exactly the records of
\* all the pages fetched have been yielded, none dropped or repeated.
C1_PageOrder ==
    /\ IsPrefix(out, RecordsUpTo(NFetched))
    /\ NFetched >= 1 => IsPrefix(RecordsUpTo(NFetched - 1), out)
    /\ (wpc \in {"next", "return"} \/ (wpc = "closed" /\ wexc = NoValue))
          => out = RecordsUpTo(NFetched)

\* three pages walked to the end, the first two with records
C1_Witness ==
    /\ wpc = "closed" /\ wexc = NoValue
    /\ NFetched = 3
    /\ Len(RecordsOf(fetched[1])) = 2
    /\ Len(RecordsOf(fetched[2])) >= 1
    /\ Len(out) >= 4

\* C2 (as claimed): a page whose records were all yielded and that has no
\* rel=next anchor, whether or not it has a pagination list, ends the walk
\* normally.
C2_NoNextEndsNormally ==
    (/\ wpc = "closed"
     /\ NFetched >= 1
     /\ Served(LastFetched)
     /\ \A i \in 1..Len(site[LastFetched].content.h2_tags) :
            site[LastFetched].content.h2_tags[i].a.isTag
     /\ ~site[LastFetched].content.next.isTag)
    => (wexc = NoValue /\ out = RecordsUpTo(NFetched))

\* C4: when the fetch of the k-th page answers with a status other than 200
\* the walk aborts with the RequestError of that page: the consumer holds
\* exactly the records of pages 1..k-1, the error leaves every frame and is
\* what the pending next() raises, and from then on nothing is yielded and
\* nothing is fetched.
C4_Failed == NFetched >= 1 /\ site[LastFetched].status_code # 200

C4_StateInv ==
    /\ C4_Failed =>
          /\ wexc = RequestError(LastFetched, site[LastFetched].status_code,
                                 site[LastFetched].reason)
          /\ wpc \in {"raise", "closed"}
          /\ out = RecordsUpTo(NFetched - 1)
          /\ wpc = "closed" => wstack = <<>>
    /\ wexc.type = "RequestError" => C4_Failed

C4_Step ==
    /\ C4_Failed => (out' = out /\ fetched' = fetched /\ wexc' = wexc)
    /\ (C4_Failed /\ wpc = "raise" /\ wpc' = "closed") => last' = "RequestError"
    /\ (C4_Failed /\ wpc = "raise") => wpc' \in {"raise", "closed"}

\* C4: a listing page answered with a status other than 200 aborts the
\* walk: C4_StateInv holds in every state and C4_Step of every step.
C4_AbortOnListingError == [](C4_StateInv) /\ [][C4_Step]_vars

\* the third page fails after two pages with records; the error has reached
\* the caller
C4_Witness ==
    /\ wpc = "closed" /\ last = "RequestError"
    /\ NFetched = 3
    /\ C4_Failed
    /\ Len(out) >= 2
    /\ Len(RecordsOf(fetched[1])) >= 1 /\ Len(RecordsOf(fetched[2])) >= 1

-----------------------------------------------------------------------------
(* Properties of make_request and download_pdf *)

HasSlash(url) == \E i \in 1..Len(url) : url[i] = "/"

\* f is what follows the last "/" of url
IsLastSegment(f, url) ==
    /\ Len(f) < Len(url)
    /\ \A i \in 1..Len(f) : f[i] # "/"
    /\ url[Len(url) - Len(f)] = "/"
    /\ SubSeq(url, Len(url) - Len(f) + 1, Len(url)) = f

Called == dp_result # NoValue
Declared == "Content-Type" \in DOMAIN response.headers

\* C5: download_pdf returns only when the declared content type is exactly
\* "application/pdf"; a status-200 response declaring anything else, the
\* ";charset=" variant included, makes it raise WrongContentType with the
\* response's URL and the content type declared, and nothing is returned.
C5_ExactContentType ==
    Called =>
        /\ dp_result.raised = NoValue =>
              (Declared /\ response.headers["Content-Type"] = "application/pdf")
        /\ (HasSlash(req_url) /\ response.status_code = 200 /\ Declared
              /\ response.headers["Content-Type"] # "application/pdf")
           => /\ dp_result.raised =
                    WrongContentType("File is not a PDF", response.url,
                                     response.headers["Content-Type"])
              /\ dp_result.value = NoValue
              /\ dp_result.created = 0

C5_Witness ==
    /\ Called
    /\ response.status_code = 200
    /\ Declared /\ response.headers["Content-Type"] = "application/pdf;charset=utf-8"
    /\ dp_result.raised.type = "WrongContentType"
    /\ response.url # req_url

\* C6: make_request and download_pdf succeed only on status 200 and raise
\* RequestError, with the status and the reason, on every other status; in
\* download_pdf the status is checked before the content type, so
\* WrongContentType is raised for status-200 responses only.
C6_OnlyStatus200 ==
    /\ mr_result # NoValue =>
          /\ mr_result.type = "ok" => response.status_code = 200
          /\ response.status_code # 200 =>
                mr_result = RequestError(response.url, response.status_code,
                                         response.reason)
    /\ (Called /\ HasSlash(req_url)) =>
          /\ dp_result.raised = NoValue => response.status_code = 200
          /\ dp_result.raised.type = "WrongContentType" => response.status_code = 200
          /\ response.status_code # 200 =>
                /\ dp_result.raised.type = "RequestError"
                /\ dp_result.raised.code = response.status_code
                /\ dp_result.raised.reason = response.reason
                /\ dp_result.value = NoValue

\* a 204 answer declaring text/html, given to both functions
C6_Witness ==
    /\ Called /\ mr_result # NoValue
    /\ response.status_code = 204
    /\ Declared /\ response.headers["Content-Type"] = "text/html"
    /\ dp_result.raised.type = "RequestError"
    /\ mr_result.type = "RequestError"

\* C7 (as claimed): the RequestError of download_pdf carries the URL the
\* response came from, after any redirect.
C7_EffectiveUrlRecorded ==
    (Called /\ dp_result.raised.type = "RequestError")
        => dp_result.raised.url = response.url

\* C8: the file object download_pdf returns holds the whole body, chunk after
\* chunk, and stands at offset 0, so that reading it gives the body byte for
\* byte, whatever the length of the body; an empty body gives an empty file.
C8_RoundTrip ==
    /\ (Called /\ dp_result.raised = NoValue) =>
          /\ dp_result.value.pdf_file_temp.pos = 0
          /\ dp_result.value.pdf_file_temp.data = response.content
    /\ readback # NoValue => readback.data = response.content
    /\ (Called /\ HasSlash(req_url) /\ response.status_code = 200 /\ Declared
          /\ response.headers["Content-Type"] = "application/pdf")
       => dp_result.raised = NoValue

\* a body one byte longer than a chunk, read back
C8_Witness ==
    /\ readback # NoValue
    /\ Len(response.content) = ChunkSize + 1
    /\ readback.data = response.content

-----------------------------------------------------------------------------
(* Properties of scrape_interruption_attachments *)

Parsed == apc \in {"loop", "closed"} /\ detail.status_code = 200 /\ detail.decodable

\* the indices of the downloads that succeeded, in order
OkDownloads ==
    SelectSeq([i \in 1..Len(downloads) |-> i], LAMBDA i : downloads[i].outcome = "ok")

\* the anchors to download: the docicon anchors of the attachments div, then
\* the download anchors of the genericintro div
ExpectedCandidates ==
    LET doc == detail.content
        pick(div, class) == SelectSeq(div.a_tags, LAMBDA a : a.class = class)
    IN pick(doc.attachments, "docicon") \o pick(doc.genericintro, "download")

\* C3: the candidates are the docicon anchors of the attachments region
\* followed by the download anchors of the genericintro region; they are
\* downloaded in that order; the records yielded are those of the downloads
\* that succeeded, in that order, one each; a download that raised
\* RequestError or WrongContentType is skipped and the loop goes on to the
\* next candidate, so those two errors never end the generator; and once
\* the generator has ended there are as many records as candidates exactly
\* when every candidate was downloaded successfully.
C3_SkipFailedDownloads ==
    Parsed =>
        /\ a_tags = ExpectedCandidates
        /\ Len(downloads) <= Len(a_tags)
        /\ \A i \in 1..Len(downloads) : downloads[i].link = a_tags[i].href
        /\ Len(aout) = Len(OkDownloads)
        /\ \A j \in 1..Len(aout) :
              /\ aout[j].download_link = a_tags[OkDownloads[j]].href
              /\ aout[j].download_link_text = a_tags[OkDownloads[j]].text
              /\ aout[j].parent_link = detail.url
              /\ IsLastSegment(aout[j].pdf_filename, aout[j].download_link)
        /\ \A i \in 1..Len(downloads) :
              downloads[i].outcome \in {"RequestError", "WrongContentType"}
                 => \/ i < Len(downloads)
                    \/ apc = "loop" /\ aidx = i + 1 /\ aexc = NoValue
                    \/ apc = "closed" /\ i = Len(a_tags) /\ aexc = NoValue
        /\ Len(aout) <= Len(a_tags)
        /\ apc = "closed" =>
              (Len(aout) = Len(a_tags)
                  <=> (/\ Len(downloads) = Len(a_tags)
                       /\ \A i \in 1..Len(downloads) : downloads[i].outcome = "ok"))

\* three candidates from the two regions: the first download has the wrong
\* content type, the second succeeds, the third is answered 404, and the
\* generator ends normally
C3_Witness ==
    /\ Parsed /\ apc = "closed" /\ alast = "StopIteration" /\ aexc = NoValue
    /\ Len(a_tags) = 3
    /\ Len(detail.content.attachments.a_tags) >= 1
    /\ Len(detail.content.genericintro.a_tags) >= 1
    /\ Len(downloads) = 3
    /\ downloads[1].outcome = "WrongContentType"
    /\ downloads[2].outcome = "ok"
    /\ downloads[3].outcome = "RequestError"
    /\ Len(aout) = 1

\* C9: when the detail page answers with a status other than 200 the
\* generator raises that RequestError to its caller on the first next(),
\* having yielded nothing, collected no candidate and called download_pdf
\* not once.
C9_StateInv ==
    detail.status_code # 200 =>
        /\ apc \in {"request", "closed"}
        /\ aout = <<>> /\ a_tags = <<>> /\ downloads = <<>> /\ tempfiles = 0
        /\ apc = "closed" =>
              /\ aexc = RequestError(detail.url, detail.status_code, detail.reason)
              /\ alast \in {"RequestError", "StopIteration"}

C9_Step ==
    (detail.status_code # 200 /\ apc = "request" /\ apc' # "request")
        => (apc' = "closed" /\ alast' = "RequestError" /\ ~ademand')

\* C9: a detail page answered with a status other than 200 makes the
\* generator raise RequestError: C9_StateInv holds in every state and
\* C9_Step of every step.
C9_DetailErrorPropagates == [](C9_StateInv) /\ [][C9_Step]_vars

C9_Witness ==
    /\ detail.status_code = 404
    /\ apc = "closed" /\ alast = "RequestError"
    /\ aexc.type = "RequestError"

-----------------------------------------------------------------------------
(* The URLs a walk fetches *)

\* the rel=next anchor of the page served at url, NoTag when it has none
NextTagOf(url) ==
    IF Served(url) /\ site[url].content.pagination
    THEN site[url].content.next ELSE NoTag

\* C13 (as claimed): the first URL fetched is the one the walk was started
\* with, the default one when it was started with none, and every later URL
\* fetched is the href of the rel=next anchor of the page fetched just
\* before it, whatever that href is.
C13_FetchesFollowHrefs ==
    /\ (NFetched >= 1 /\ Len(wstack) >= 1) =>
          fetched[1] = IF wstack[1] = None THEN KPLC_INTERRUPTIONS_URL ELSE wstack[1]
    /\ \A k \in 2..NFetched :
          /\ NextTagOf(fetched[k - 1]).isTag
          /\ fetched[k] = NextTagOf(fetched[k - 1]).href

\* the listing URLs the next link of the page served at url leads to: the
\* href of its rel=next anchor; an empty href leads back to the page itself,
\* an anchor without href leads nowhere
LinksOf(url) ==
    LET a == NextTagOf(url) IN
    IF ~a.isTag \/ a.href = None THEN {}
    ELSE IF a.href = "" THEN {url}
    ELSE {a.href}

\* the URLs reached from those of from by following n next links or fewer,
\* one at least
RECURSIVE Reached(_, _)
Reached(from, n) ==
    IF n = 0 THEN {}
    ELSE LET step == UNION {LinksOf(u) : u \in from}
         IN step \cup Reached(step, n - 1)

\* no page served so far is reached from itself by next links
Acyclic == \A u \in DOMAIN site : u \notin Reached({u}, Cardinality(ListingUrls))

NoUrlFetchedTwice ==
    \A i, j \in 1..NFetched : i # j => fetched[i] # fetched[j]

\* C12 (as claimed): when the next links of the site are acyclic, no URL is
\* fetched twice in one walk.
C12_NoRefetchIfAcyclic == Acyclic => NoUrlFetchedTwice

-----------------------------------------------------------------------------
(* Any one of the three: a walk, a run of the attachment generator, or the *)
(* two fetch functions on one response                                     *)

InitAny == Init \/ InitAttach \/ InitFetch

NextAny ==
    \/ wpc # "idle" /\ Next
    \/ apc # "idle" /\ NextAttach
    \/ response # NoValue /\ NextFetch

SpecAny == InitAny /\ [][NextAny]_vars

-----------------------------------------------------------------------------
(* Laziness of the two generators *)

\* a generator that is not asked for an element has not started or is
\* suspended at its yield or has ended; all the records of the pages before
\* the last one fetched have been received
C11_StateInv ==
    /\ ~demand =>
          \/ wpc = "idle"
          \/ wpc = "request" /\ fetched = <<>> /\ out = <<>>
          \/ wpc = "h2_tags" /\ last = "record"
          \/ wpc = "closed"
    /\ ~ademand =>
          \/ apc = "idle"
          \/ apc = "request" /\ downloads = <<>> /\ aout = <<>>
          \/ apc = "loop" /\ alast = "record"
          \/ apc = "closed"
    /\ NFetched >= 1 => IsPrefix(RecordsUpTo(NFetched - 1), out)

\* a page is fetched, and a download made, only while a next() is pending
\* and every record of the pages fetched before, or of the downloads made
\* before, has been received; while no next() is pending the generator does
\* nothing
C11_Step ==
    /\ fetched' # fetched =>
          /\ demand
          /\ out = RecordsUpTo(NFetched)
          /\ Len(fetched') = NFetched + 1
    /\ downloads' # downloads =>
          /\ ademand
          /\ Len(aout) = Len(OkDownloads)
          /\ Len(downloads') = Len(downloads) + 1
    /\ ~demand =>
          /\ fetched' = fetched /\ out' = out /\ site' = site
          /\ wpc' = wpc /\ wstack' = wstack /\ widx' = widx
    /\ ~ademand =>
          /\ downloads' = downloads /\ aout' = aout /\ tempfiles' = tempfiles
          /\ apc' = apc /\ aidx' = aidx

\* C11: both generators are pull-based: neither fetches a page nor downloads
\* an attachment ahead of the consumer (C11_StateInv holds in every state
\* and C11_Step of every step).
C11_PullBased == [](C11_StateInv) /\ [][C11_Step]_vars

\* the consumer holds the last record of the first page, which has a next
\* link, and has not asked for more: the second page has not been fetched
C11_Witness ==
    /\ wpc = "h2_tags" /\ ~demand
    /\ NFetched = 1
    /\ Len(out) = 2 /\ out = RecordsUpTo(1)
    /\ NextTagOf(fetched[1]).isTag
    /\ NextTagOf(fetched[1]).href \in ListingUrls \ {fetched[1]}

-----------------------------------------------------------------------------
(* Temporary files *)

====
